---- MODULE Spec2Model ----
\* rust-mon: a metrics Collector (src/wasi_metrics/src/bin/metrics_client.rs)
\* pushing a text block over TCP to a Sink (src/server.rs) that reads once per
\* connection, logs the lossily decoded bytes and answers "Data received\n".
\*
\* Byte strings are sequences of 0..255, decoded text is a sequence of Unicode
\* scalar values.  The two processes and the TCP peers interleave step by step;
\* every blocking call of the source (bind, accept, read, write, connect,
\* sleep) is one step.
EXTENDS Integers, Sequences, FiniteSets, TLC

\* ------------------------------------------------------------------ bounds
MaxConns == 2        \* connections ever opened towards the Sink
MaxCycles == 2       \* Collector cycles that are started
MaxAcceptErrs == 1   \* accept failures reported by the operating system

\* --------------------------------------------------------------- constants
BufferCap == 1024                \* let mut buffer = [0; 1024]
REPLACEMENT == 65533             \* U+FFFD, written by from_utf8_lossy

\* "Data received\n"
response == <<68, 97, 116, 97, 32, 114, 101, 99, 101, 105, 118, 101, 100, 10>>

\* ------------------------------------------------------- sequence helpers
Min(a, b) == IF a < b THEN a ELSE b

Drop(s, n) == SubSeq(s, Min(n, Len(s)) + 1, Len(s))

Rep(n, b) == [i \in 1..n |-> b]

\* ------------------------------------------------ String::from_utf8_lossy
\* byte i of bs, 0 past the end (safe_get of core::str::lossy)
SafeGet(bs, i) == IF i <= Len(bs) THEN bs[i] ELSE 0

IsCont(b) == b >= 128 /\ b <= 191

Utf8CharWidth(b) ==
    IF b < 128 THEN 1
    ELSE IF b >= 194 /\ b <= 223 THEN 2
    ELSE IF b >= 224 /\ b <= 239 THEN 3
    ELSE IF b >= 240 /\ b <= 244 THEN 4
    ELSE 0

\* the second byte of a three-byte sequence, by lead byte
Second3Ok(b, c) ==
    \/ b = 224 /\ c >= 160 /\ c <= 191
    \/ b >= 225 /\ b <= 236 /\ IsCont(c)
    \/ b = 237 /\ c >= 128 /\ c <= 159
    \/ b >= 238 /\ b <= 239 /\ IsCont(c)

\* the second byte of a four-byte sequence, by lead byte
Second4Ok(b, c) ==
    \/ b = 240 /\ c >= 144 /\ c <= 191
    \/ b >= 241 /\ b <= 243 /\ IsCont(c)
    \/ b = 244 /\ c >= 128 /\ c <= 143

\* One decoding step at index i: <<scalar value written, bytes consumed>>.
\* An ill-formed sequence is consumed up to its maximal valid prefix and
\* written as one U+FFFD.
DecodeAt(bs, i) ==
    LET b  == bs[i]
        c1 == SafeGet(bs, i + 1)
        c2 == SafeGet(bs, i + 2)
        c3 == SafeGet(bs, i + 3)
        w  == Utf8CharWidth(b)
    IN  CASE w = 1 -> <<b, 1>>
          [] w = 2 -> IF IsCont(c1)
                      THEN <<(b % 32) * 64 + (c1 % 64), 2>>
                      ELSE <<REPLACEMENT, 1>>
          [] w = 3 -> IF ~Second3Ok(b, c1) THEN <<REPLACEMENT, 1>>
                      ELSE IF ~IsCont(c2) THEN <<REPLACEMENT, 2>>
                      ELSE <<(b % 16) * 4096 + (c1 % 64) * 64 + (c2 % 64), 3>>
          [] w = 4 -> IF ~Second4Ok(b, c1) THEN <<REPLACEMENT, 1>>
                      ELSE IF ~IsCont(c2) THEN <<REPLACEMENT, 2>>
                      ELSE IF ~IsCont(c3) THEN <<REPLACEMENT, 3>>
                      ELSE <<(b % 8) * 262144 + (c1 % 64) * 4096
                              + (c2 % 64) * 64 + (c3 % 64), 4>>
          [] OTHER -> <<REPLACEMENT, 1>>

\* The decoder's loop state is <<next index, text written so far>>; one
\* iteration works on the state s the iterations before it have produced.
LossyStep(bs, st) ==
    CHOOSE next \in
        { IF s[1] > Len(bs) THEN s
          ELSE IF bs[s[1]] < 128 THEN <<s[1] + 1, Append(s[2], bs[s[1]])>>
          ELSE LET d == DecodeAt(bs, s[1])
               IN  <<s[1] + d[2], Append(s[2], d[1])>> :
            s \in {st} } : TRUE

LossyStep4(bs, st) == LossyStep(bs, LossyStep(bs, LossyStep(bs, LossyStep(bs, st))))

LossyStep16(bs, st) == LossyStep4(bs, LossyStep4(bs, LossyStep4(bs, LossyStep4(bs, st))))

LossyStep32(bs, st) == LossyStep16(bs, LossyStep16(bs, st))

\* the loop, thirty-two iterations to a recursion level: the text of each
\* run of iterations is pushed onto the text written before it
RECURSIVE LossyLoop(_, _, _)
LossyLoop(bs, i, text) ==
    IF i > Len(bs) THEN text
    ELSE CHOOSE out \in
             { LossyLoop(bs, run[1], text \o run[2]) :
                 run \in {LossyStep32(bs, <<i, <<>>>>)} } : TRUE

\* the bytes b of the slice are decoded from the first to the last
from_utf8_lossy(bs) ==
    CHOOSE text \in { LossyLoop(b, 1, <<>>) : b \in {bs} } : TRUE

\* ------------------------------------------------------------ format!(..)
\* Display of an unsigned integer: decimal digits, no leading zeros
RECURSIVE DisplayU64(_)
DisplayU64(n) ==
    IF n < 10 THEN <<48 + n>>
    ELSE Append(DisplayU64(n \div 10), 48 + (n % 10))

\* Display of the f32 h/100 (h in hundredths): the shortest decimal that
\* reads back as the same value, no fraction when it is integral
DisplayF32(h) ==
    LET whole == DisplayU64(h \div 100)
        f     == h % 100
    IN  IF f = 0 THEN whole
        ELSE IF f % 10 = 0 THEN whole \o <<46, 48 + (f \div 10)>>
        ELSE whole \o <<46, 48 + (f \div 10), 48 + (f % 10)>>

\* "Total memory: {} KB\nAvailable memory: {} KB\nCPU load: {}%\n"
TotalPrefix == <<84, 111, 116, 97, 108, 32, 109, 101, 109, 111, 114, 121, 58, 32>>

AvailPrefix == <<65, 118, 97, 105, 108, 97, 98, 108, 101, 32, 109, 101, 109, 111, 114, 121, 58, 32>>

CpuPrefix == <<67, 80, 85, 32, 108, 111, 97, 100, 58, 32>>

KbSuffix == <<32, 75, 66, 10>>

PctSuffix == <<37, 10>>

\* a payload that reports the last enumerated processor
FormatMetricsLastCpu(sys) ==
    TotalPrefix \o DisplayU64(sys.total_memory) \o KbSuffix
    \o AvailPrefix \o DisplayU64(sys.available_memory) \o KbSuffix
    \o CpuPrefix \o DisplayF32(sys.processors[Len(sys.processors)]) \o PctSuffix

FormatMetrics(sys) ==
    TotalPrefix \o DisplayU64(sys.total_memory) \o KbSuffix
    \o AvailPrefix \o DisplayU64(sys.available_memory) \o KbSuffix
    \o CpuPrefix \o DisplayF32(sys.processors[1]) \o PctSuffix

\* ------------------------------------------------------------------ inputs
\* what refresh_all can find on the host: memory in KB, cpu_usage of each
\* enumerated processor in hundredths of a percent
HostSnapshots ==
    { [total_memory |-> 16384256, available_memory |-> 0, processors |-> <<0>>],
      [total_memory |-> 8000, available_memory |-> 8000, processors |-> <<1250, 10000>>],
      [total_memory |-> 1, available_memory |-> 0, processors |-> <<10000, 305>>] }

\* what System::new_all() found before the loop starts
BootSnapshot == [total_memory |-> 8000, available_memory |-> 8000, processors |-> <<1250, 10000>>]

\* what a TCP peer other than the Collector may send in its one write
Hello == <<104, 101, 108, 108, 111>>

\* exactly a buffer's worth: an ill-formed byte, text, and a two-byte character
Full == <<255>> \o Rep(BufferCap - 3, 97) \o <<195, 169>>

\* two bytes more than the buffer; the cut falls inside the two-byte character
Long == Rep(BufferCap - 1, 97) \o <<195, 169, 98>>

PeerPayloads == {Hello, Full, Long}

\* ------------------------------------------------------------------- state
VARIABLES
    sinkPc,        \* where the Sink's main is: start, listening, reading, writing, exited, panicked
    bindAttempts,  \* calls of TcpListener::bind
    incoming,      \* listener.incoming(): connections completed by the OS, not yet accepted
    accepted,      \* connections in the order the Sink accepted them
    stream,        \* the stream the Sink's handler owns, 0 if none
    stdout,        \* the Sink's println! lines
    stderr,        \* the Sink's eprintln! lines (and the panic message)
    acceptErrs,    \* accept failures so far
    conns,         \* every connection opened towards the Sink, by id
    colPc,         \* where the Collector's main is: sample, connect, write, sleep
    cycle,         \* the Collector's current cycle, 0 before the first
    system,        \* the Collector's System snapshot
    metrics,       \* the Collector's formatted payload of this cycle
    colStream,     \* the stream send_data owns, 0 if none
    colErr         \* the Collector's eprintln! lines, with the cycle that wrote them

vars == <<sinkPc, bindAttempts, incoming, accepted, stream, stdout, stderr,
          acceptErrs, conns, colPc, cycle, system, metrics, colStream, colErr>>

sinkVars == <<sinkPc, bindAttempts, incoming, accepted, stream, stdout, stderr, acceptErrs>>

colVars == <<colPc, cycle, system, metrics, colStream, colErr>>

\* a connection just completed by the OS, as the client and the Sink see it
NewConn(who) ==
    [ owner      |-> who,      \* "collector" or "peer"
      sent       |-> <<>>,     \* bytes the client wrote
      wrote      |-> FALSE,    \* the client has made its write call
      writes     |-> 0,        \* write calls the client made on the stream
      cycle      |-> IF who = "collector" THEN cycle ELSE 0,  \* the Collector's cycle that opened it
      clientOpen |-> TRUE,     \* the client still holds its end
      rx         |-> <<>>,     \* bytes queued at the Sink's end, not yet read
      state      |-> "queued", \* queued, accepted (in the handler), done, aborted
      reads      |-> 0,        \* read calls the Sink made on the stream
      readResult |-> "none",   \* none, ok, err
      size       |-> 0,        \* Ok(size) of the read
      logLine    |-> 0,        \* index in stdout of the line logged for it
      acks       |-> <<>>,     \* arguments of the Sink's write calls on the stream
      ackResult  |-> "none",   \* none, ok, err
      reply      |-> <<>> ]    \* bytes the client's end received

SinkUp == sinkPc \in {"listening", "reading", "writing"}

Init ==
    /\ sinkPc = "start"
    /\ bindAttempts = 0
    /\ incoming = <<>>
    /\ accepted = <<>>
    /\ stream = 0
    /\ stdout = <<>>
    /\ stderr = <<>>
    /\ acceptErrs = 0
    /\ conns = <<>>
    /\ colPc = "sample"
    /\ cycle = 0
    /\ system = BootSnapshot
    /\ metrics = <<>>
    /\ colStream = 0
    /\ colErr = <<>>

\* -------------------------------------------------------- Sink (server.rs)
\* a bind that is tried again after it failed
SinkBindRetry ==
    /\ sinkPc = "start"
    /\ bindAttempts' = bindAttempts + 1
    /\ \/ /\ sinkPc' = "listening"
          /\ stdout' = Append(stdout, <<"Server listening on port 8080...">>)
       \/ /\ sinkPc' = "start"
          /\ stdout' = stdout
    /\ UNCHANGED <<incoming, accepted, stream, stderr, acceptErrs, conns>>
    /\ UNCHANGED colVars

\* TcpListener::bind("127.0.0.1:8080")?  then the banner
SinkBind ==
    /\ sinkPc = "start"
    /\ bindAttempts' = bindAttempts + 1
    /\ \/ /\ sinkPc' = "listening"
          /\ stdout' = Append(stdout, <<"Server listening on port 8080...">>)
       \/ /\ sinkPc' = "exited"
          /\ stdout' = stdout
    /\ UNCHANGED <<incoming, accepted, stream, stderr, acceptErrs, conns>>
    /\ UNCHANGED colVars

\* an accept that does not wait for the handler to return
SinkAcceptOkEarly ==
    /\ sinkPc \in {"listening", "reading"}
    /\ incoming # <<>>
    /\ LET c == Head(incoming)
       IN  /\ stream' = c
           /\ incoming' = Tail(incoming)
           /\ accepted' = Append(accepted, c)
           /\ conns' = [conns EXCEPT ![c].state = "accepted"]
    /\ sinkPc' = "reading"
    /\ UNCHANGED <<bindAttempts, stdout, stderr, acceptErrs>>
    /\ UNCHANGED colVars

\* an accept that takes the connection queued last
SinkAcceptOkLast ==
    /\ sinkPc = "listening"
    /\ incoming # <<>>
    /\ LET c == incoming[Len(incoming)]
       IN  /\ stream' = c
           /\ incoming' = SubSeq(incoming, 1, Len(incoming) - 1)
           /\ accepted' = Append(accepted, c)
           /\ conns' = [conns EXCEPT ![c].state = "accepted"]
    /\ sinkPc' = "reading"
    /\ UNCHANGED <<bindAttempts, stdout, stderr, acceptErrs>>
    /\ UNCHANGED colVars

\* for stream in listener.incoming(), Ok(mut stream)
SinkAcceptOk ==
    /\ sinkPc = "listening"
    /\ incoming # <<>>
    /\ LET c == Head(incoming)
       IN  /\ stream' = c
           /\ incoming' = Tail(incoming)
           /\ accepted' = Append(accepted, c)
           /\ conns' = [conns EXCEPT ![c].state = "accepted"]
    /\ sinkPc' = "reading"
    /\ UNCHANGED <<bindAttempts, stdout, stderr, acceptErrs>>
    /\ UNCHANGED colVars

\* an accept failure that is propagated out of main
SinkAcceptErrFatal ==
    /\ sinkPc = "listening"
    /\ acceptErrs < MaxAcceptErrs
    /\ acceptErrs' = acceptErrs + 1
    /\ stderr' = Append(stderr, "Failed to establish a connection")
    /\ sinkPc' = "exited"
    /\ UNCHANGED <<bindAttempts, incoming, accepted, stream, stdout, conns>>
    /\ UNCHANGED colVars

\* for stream in listener.incoming(), Err(e)
SinkAcceptErr ==
    /\ sinkPc = "listening"
    /\ acceptErrs < MaxAcceptErrs
    /\ acceptErrs' = acceptErrs + 1
    /\ stderr' = Append(stderr, "Failed to establish a connection")
    /\ UNCHANGED <<sinkPc, bindAttempts, incoming, accepted, stream, stdout, conns>>
    /\ UNCHANGED colVars

\* a read that leaves the last queued byte behind
ReadSizeShort(avail) == IF avail > 0 THEN Min(BufferCap, avail) - 1 ELSE 0

\* Ok(size) of stream.read(&mut buffer) with avail bytes queued
ReadSize(avail) == Min(BufferCap, avail)

\* the buffer after the read: [0; 1024] with the first size bytes filled
ReadInto(rx, size) == [i \in 1..BufferCap |-> IF i <= size THEN rx[i] ELSE 0]

\* a read that goes on reading until the stream is drained, logging the first buffer
SinkReadOkDrain ==
    /\ sinkPc = "reading"
    /\ LET c == stream
           rx == conns[c].rx
           size == ReadSize(Len(rx))
           buffer == ReadInto(rx, size)
       IN  /\ rx # <<>> \/ ~conns[c].clientOpen
           /\ stdout' = Append(stdout, <<"Received data: ", from_utf8_lossy(SubSeq(buffer, 1, size))>>)
           /\ conns' = [conns EXCEPT ![c].rx = <<>>,
                                     ![c].reads = @ + 1,
                                     ![c].readResult = "ok",
                                     ![c].size = size,
                                     ![c].logLine = Len(stdout) + 1]
    /\ sinkPc' = "writing"
    /\ UNCHANGED <<bindAttempts, incoming, accepted, stream, stderr, acceptErrs>>
    /\ UNCHANGED colVars

\* a read that takes Ok(0) for a closed connection and drops the stream
SinkReadOkEofDrop ==
    /\ sinkPc = "reading"
    /\ LET c == stream
           rx == conns[c].rx
           size == ReadSize(Len(rx))
           buffer == ReadInto(rx, size)
       IN  /\ rx # <<>> \/ ~conns[c].clientOpen
           /\ IF size = 0
              THEN /\ stdout' = stdout
                   /\ conns' = [conns EXCEPT ![c].reads = @ + 1,
                                             ![c].readResult = "ok",
                                             ![c].state = "done"]
                   /\ stream' = 0
                   /\ sinkPc' = "listening"
              ELSE /\ stdout' = Append(stdout, <<"Received data: ", from_utf8_lossy(SubSeq(buffer, 1, size))>>)
                   /\ conns' = [conns EXCEPT ![c].rx = Drop(rx, size),
                                             ![c].reads = @ + 1,
                                             ![c].readResult = "ok",
                                             ![c].size = size,
                                             ![c].logLine = Len(stdout) + 1]
                   /\ stream' = stream
                   /\ sinkPc' = "writing"
    /\ UNCHANGED <<bindAttempts, incoming, accepted, stderr, acceptErrs>>
    /\ UNCHANGED colVars

\* a read loop that drains the stream: while bytes are left it reads again
SinkReadOkLoop ==
    /\ sinkPc = "reading"
    /\ LET c == stream
           rx == conns[c].rx
           size == ReadSize(Len(rx))
           buffer == ReadInto(rx, size)
       IN  /\ rx # <<>> \/ ~conns[c].clientOpen
           /\ stdout' = Append(stdout, <<"Received data: ", from_utf8_lossy(SubSeq(buffer, 1, size))>>)
           /\ conns' = [conns EXCEPT ![c].rx = Drop(rx, size),
                                     ![c].reads = @ + 1,
                                     ![c].readResult = "ok",
                                     ![c].size = size,
                                     ![c].logLine = Len(stdout) + 1]
           /\ sinkPc' = IF Drop(rx, size) # <<>> THEN "reading" ELSE "writing"
    /\ UNCHANGED <<bindAttempts, incoming, accepted, stream, stderr, acceptErrs>>
    /\ UNCHANGED colVars

\* a read that does not block: with nothing queued it returns Ok(0) at once
SinkReadOkNonBlocking ==
    /\ sinkPc = "reading"
    /\ LET c == stream
           rx == conns[c].rx
           size == ReadSize(Len(rx))
           buffer == ReadInto(rx, size)
       IN  /\ stdout' = Append(stdout, <<"Received data: ", from_utf8_lossy(SubSeq(buffer, 1, size))>>)
           /\ conns' = [conns EXCEPT ![c].rx = Drop(rx, size),
                                     ![c].reads = @ + 1,
                                     ![c].readResult = "ok",
                                     ![c].size = size,
                                     ![c].logLine = Len(stdout) + 1]
    /\ sinkPc' = "writing"
    /\ UNCHANGED <<bindAttempts, incoming, accepted, stream, stderr, acceptErrs>>
    /\ UNCHANGED colVars

\* stream.read returns Ok(size); println!; the handler goes on to the write
SinkReadOk ==
    /\ sinkPc = "reading"
    /\ LET c == stream
           rx == conns[c].rx
           size == ReadSize(Len(rx))
           buffer == ReadInto(rx, size)
       IN  /\ rx # <<>> \/ ~conns[c].clientOpen
           /\ stdout' = Append(stdout, <<"Received data: ", from_utf8_lossy(SubSeq(buffer, 1, size))>>)
           /\ conns' = [conns EXCEPT ![c].rx = Drop(rx, size),
                                     ![c].reads = @ + 1,
                                     ![c].readResult = "ok",
                                     ![c].size = size,
                                     ![c].logLine = Len(stdout) + 1]
    /\ sinkPc' = "writing"
    /\ UNCHANGED <<bindAttempts, incoming, accepted, stream, stderr, acceptErrs>>
    /\ UNCHANGED colVars

\* a read failure that is logged and then falls through to the write
SinkReadErrFallThrough ==
    /\ sinkPc = "reading"
    /\ stderr' = Append(stderr, "Failed to read from connection")
    /\ conns' = [conns EXCEPT ![stream].reads = @ + 1,
                              ![stream].readResult = "err"]
    /\ sinkPc' = "writing"
    /\ UNCHANGED <<bindAttempts, incoming, accepted, stream, stdout, acceptErrs>>
    /\ UNCHANGED colVars

\* stream.read returns Err(e); eprintln!; the stream is dropped
SinkReadErr ==
    /\ sinkPc = "reading"
    /\ stderr' = Append(stderr, "Failed to read from connection")
    /\ conns' = [conns EXCEPT ![stream].reads = @ + 1,
                              ![stream].readResult = "err",
                              ![stream].state = "done"]
    /\ stream' = 0
    /\ sinkPc' = "listening"
    /\ UNCHANGED <<bindAttempts, incoming, accepted, stdout, acceptErrs>>
    /\ UNCHANGED colVars

\* a keep-alive handler: after the acknowledgment it reads the same stream again
SinkWriteOkKeepAlive ==
    /\ sinkPc = "writing"
    /\ conns' = [conns EXCEPT ![stream].acks = Append(@, response),
                              ![stream].ackResult = "ok",
                              ![stream].reply = @ \o response]
    /\ sinkPc' = "reading"
    /\ UNCHANGED <<bindAttempts, incoming, accepted, stream, stdout, stderr, acceptErrs>>
    /\ UNCHANGED colVars

\* stream.write(response.as_bytes()) returns Ok; unwrap; the stream is dropped
SinkWriteOk ==
    /\ sinkPc = "writing"
    /\ conns' = [conns EXCEPT ![stream].acks = Append(@, response),
                              ![stream].ackResult = "ok",
                              ![stream].reply = @ \o response,
                              ![stream].state = "done"]
    /\ stream' = 0
    /\ sinkPc' = "listening"
    /\ UNCHANGED <<bindAttempts, incoming, accepted, stdout, stderr, acceptErrs>>
    /\ UNCHANGED colVars

\* stream.write(response.as_bytes()) returns Err; unwrap panics in main
SinkWriteErr ==
    /\ sinkPc = "writing"
    /\ conns' = [conns EXCEPT ![stream].acks = Append(@, response),
                              ![stream].ackResult = "err",
                              ![stream].state = "aborted"]
    /\ stderr' = Append(stderr, "panicked at Result::unwrap on an Err value")
    /\ stream' = 0
    /\ sinkPc' = "panicked"
    /\ UNCHANGED <<bindAttempts, incoming, accepted, stdout, acceptErrs>>
    /\ UNCHANGED colVars

\* --------------------------------------------- Collector (metrics_client.rs)
\* system.refresh_all(); let metrics = format!(...)
Sample ==
    /\ colPc = "sample"
    /\ cycle < MaxCycles
    /\ cycle' = cycle + 1
    /\ system' \in HostSnapshots
    /\ metrics' = FormatMetrics(system')
    /\ colPc' = "connect"
    /\ UNCHANGED <<colStream, colErr, conns>>
    /\ UNCHANGED sinkVars

\* send_data: TcpStream::connect returns Ok(stream)
ConnectOk ==
    /\ colPc = "connect"
    /\ SinkUp
    /\ conns' = Append(conns, NewConn("collector"))
    /\ incoming' = Append(incoming, Len(conns) + 1)
    /\ colStream' = Len(conns) + 1
    /\ colPc' = "write"
    /\ UNCHANGED <<cycle, system, metrics, colErr>>
    /\ UNCHANGED <<sinkPc, bindAttempts, accepted, stream, stdout, stderr, acceptErrs>>

\* a connect failure that ends the Collector
ConnectErrAbort ==
    /\ colPc = "connect"
    /\ ~SinkUp
    /\ colErr' = Append(colErr, [cycle |-> cycle, msg |-> "Could not connect to server"])
    /\ colPc' = "exited"
    /\ UNCHANGED <<cycle, system, metrics, colStream, conns>>
    /\ UNCHANGED sinkVars

\* send_data: TcpStream::connect returns Err(e); eprintln!; return
ConnectErr ==
    /\ colPc = "connect"
    /\ ~SinkUp
    /\ colErr' = Append(colErr, [cycle |-> cycle, msg |-> "Could not connect to server"])
    /\ colPc' = "sleep"
    /\ UNCHANGED <<cycle, system, metrics, colStream, conns>>
    /\ UNCHANGED sinkVars

\* a pooled connection: the stream is kept open after the write
WriteOkPooled ==
    /\ colPc = "write"
    /\ conns' = [conns EXCEPT ![colStream].sent = metrics,
                              ![colStream].wrote = TRUE,
                              ![colStream].writes = @ + 1,
                              ![colStream].rx = @ \o metrics]
    /\ colPc' = "sleep"
    /\ UNCHANGED <<cycle, system, metrics, colStream, colErr>>
    /\ UNCHANGED sinkVars

\* send_data: stream.write(data.as_bytes()) returns Ok; the stream is dropped
WriteOk ==
    /\ colPc = "write"
    /\ conns' = [conns EXCEPT ![colStream].sent = metrics,
                              ![colStream].wrote = TRUE,
                              ![colStream].writes = @ + 1,
                              ![colStream].rx = @ \o metrics,
                              ![colStream].clientOpen = FALSE]
    /\ colStream' = 0
    /\ colPc' = "sleep"
    /\ UNCHANGED <<cycle, system, metrics, colErr>>
    /\ UNCHANGED sinkVars

\* send_data: stream.write returns Err(e); eprintln!; the stream is dropped
WriteErr ==
    /\ colPc = "write"
    /\ conns' = [conns EXCEPT ![colStream].wrote = TRUE,
                              ![colStream].writes = @ + 1,
                              ![colStream].clientOpen = FALSE]
    /\ colErr' = Append(colErr, [cycle |-> cycle, msg |-> "Failed to send data"])
    /\ colStream' = 0
    /\ colPc' = "sleep"
    /\ UNCHANGED <<cycle, system, metrics>>
    /\ UNCHANGED sinkVars

\* a Collector that goes on only once the cycle's connection is acknowledged
SleepAfterAck ==
    /\ colPc = "sleep"
    /\ \A c \in 1..Len(conns) :
          (conns[c].owner = "collector" /\ conns[c].cycle = cycle) => conns[c].ackResult # "none"
    /\ colPc' = "sample"
    /\ UNCHANGED <<cycle, system, metrics, colStream, colErr, conns>>
    /\ UNCHANGED sinkVars

\* a single pass: after the sleep the Collector returns from main
SleepOnce ==
    /\ colPc = "sleep"
    /\ colPc' = "exited"
    /\ UNCHANGED <<cycle, system, metrics, colStream, colErr, conns>>
    /\ UNCHANGED sinkVars

\* thread::sleep(Duration::from_secs(5)) returns; the loop starts over
Sleep ==
    /\ colPc = "sleep"
    /\ colPc' = "sample"
    /\ UNCHANGED <<cycle, system, metrics, colStream, colErr, conns>>
    /\ UNCHANGED sinkVars

\* ------------------------------------------------- other peers of the Sink
\* a peer connects to 127.0.0.1:8080; the OS queues it at the listener
PeerConnect ==
    /\ SinkUp
    /\ Len(conns) < MaxConns
    /\ conns' = Append(conns, NewConn("peer"))
    /\ incoming' = Append(incoming, Len(conns) + 1)
    /\ UNCHANGED <<sinkPc, bindAttempts, accepted, stream, stdout, stderr, acceptErrs>>
    /\ UNCHANGED colVars

\* the peer sends B in a single write
PeerWrite ==
    \E c \in 1..Len(conns), B \in PeerPayloads :
        /\ conns[c].owner = "peer"
        /\ conns[c].clientOpen
        /\ ~conns[c].wrote
        /\ conns' = [conns EXCEPT ![c].sent = B, ![c].wrote = TRUE, ![c].writes = @ + 1,
                                  ![c].rx = @ \o B]
        /\ UNCHANGED sinkVars
        /\ UNCHANGED colVars

\* the peer sends "hello" in a single write
PeerWriteHello ==
    \E c \in 1..Len(conns) :
        /\ conns[c].owner = "peer"
        /\ conns[c].clientOpen
        /\ ~conns[c].wrote
        /\ conns' = [conns EXCEPT ![c].sent = Hello, ![c].wrote = TRUE, ![c].writes = @ + 1,
                                  ![c].rx = @ \o Hello]
        /\ UNCHANGED sinkVars
        /\ UNCHANGED colVars

\* the peer closes its end
PeerClose ==
    \E c \in 1..Len(conns) :
        /\ conns[c].owner = "peer"
        /\ conns[c].clientOpen
        /\ conns' = [conns EXCEPT ![c].clientOpen = FALSE]
        /\ UNCHANGED sinkVars
        /\ UNCHANGED colVars

\* any step of the Sink's main
SinkStep ==
    \/ SinkBind
    \/ SinkAcceptOk
    \/ SinkAcceptErr
    \/ SinkReadOk
    \/ SinkReadErr
    \/ SinkWriteOk
    \/ SinkWriteErr

\* the Sink serving arbitrary TCP peers
Next ==
    \/ SinkBind
    \/ SinkAcceptOk
    \/ SinkAcceptErr
    \/ SinkReadOk
    \/ SinkReadErr
    \/ SinkWriteOk
    \/ SinkWriteErr
    \/ PeerConnect
    \/ PeerWrite
    \/ PeerClose

Spec == Init /\ [][Next]_vars

\* a blocking call of the Sink returns without an error: bind, accept of a
\* queued connection, read of queued bytes or of a closed stream, write
SinkProgress ==
    \/ SinkBind
    \/ SinkAcceptOk
    \/ SinkReadOk
    \/ SinkWriteOk

\* the Sink's thread keeps running: a call that can return does return, with
\* or without an error; nothing is assumed of the peers
SinkFairSpec == Spec /\ WF_vars(SinkProgress)

\* the Sink serving peers that send the five-byte payload, if they send
ProgressNext ==
    \/ SinkBind
    \/ SinkAcceptOk
    \/ SinkAcceptErr
    \/ SinkReadOk
    \/ SinkReadErr
    \/ SinkWriteOk
    \/ SinkWriteErr
    \/ PeerConnect
    \/ PeerWriteHello
    \/ PeerClose

\* the client of the connection the Sink is serving sends or closes
ServedPeerActs ==
    /\ stream # 0
    /\ PeerWriteHello \/ PeerClose
    /\ conns'[stream] # conns[stream]

\* the Sink keeps running and the client it is serving does not stay silent
\* with its end open
FairSpec ==
    /\ Init /\ [][ProgressNext]_vars
    /\ WF_vars(SinkProgress)
    /\ WF_vars(ServedPeerActs)

\* the Collector delivering to the Sink
CollectorNext ==
    \/ Sample
    \/ ConnectOk
    \/ ConnectErr
    \/ WriteOk
    \/ WriteErr
    \/ Sleep
    \/ SinkBind
    \/ SinkAcceptOk
    \/ SinkAcceptErr
    \/ SinkReadOk
    \/ SinkReadErr
    \/ SinkWriteOk
    \/ SinkWriteErr

CollectorSpec == Init /\ [][CollectorNext]_vars

\* any step of the Collector's main
CollectorStep ==
    \/ Sample
    \/ ConnectOk
    \/ ConnectErr
    \/ WriteOk
    \/ WriteErr
    \/ Sleep

\* the Collector's thread keeps running: connect, write and sleep return, and
\* the loop takes its next step
FairCollectorSpec == CollectorSpec /\ WF_vars(CollectorStep)

TypeOK ==
    /\ sinkPc \in {"start", "listening", "reading", "writing", "exited", "panicked"}
    /\ colPc \in {"sample", "connect", "write", "sleep"}
    /\ stream \in 0..Len(conns)
    /\ colStream \in 0..Len(conns)
    /\ Len(conns) <= MaxConns + MaxCycles

\* ================================================================ claims
ConnIds == 1..Len(conns)

\* the line the Sink logged for connection c
LoggedText(c) == stdout[conns[c].logLine][2]

\* the handler of connection c has left the match on the read
HandlerOver(c) == conns[c].state \in {"done", "aborted"}

\* "Data received\n"
DataReceivedLn == <<68, 97, 116, 97, 32, 114, 101, 99, 101, 105, 118, 101, 100, 10>>

\* what the client sent on a connection and what the Sink logged for it do
\* not change once the connection has been read
ReadIsFinal ==
    \A c \in ConnIds :
        conns[c].readResult = "ok" =>
            /\ conns'[c].sent = conns[c].sent
            /\ conns'[c].logLine = conns[c].logLine
            /\ stdout'[conns[c].logLine] = stdout[conns[c].logLine]

SequentialAcceptance ==
    /\ [](/\ Cardinality({c \in ConnIds : conns[c].state = "accepted"}) <= 1
          /\ \A j \in 1..Len(accepted) : \A i \in 1..(j - 1) :
                conns[accepted[j]].reads > 0 =>
                    /\ HandlerOver(accepted[i])
                    /\ conns[accepted[i]].reads = 1
                    /\ \/ conns[accepted[i]].readResult = "err"
                       \/ /\ conns[accepted[i]].logLine > 0
                          /\ conns[accepted[i]].acks = <<DataReceivedLn>>
          /\ \A c \in ConnIds : conns[c].state = "queued" <=> (\E k \in 1..Len(incoming) : incoming[k] = c))
    /\ [][\A c \in ConnIds :
            (conns[c].state = "queued" /\ conns'[c].state # "queued") =>
                /\ \A d \in ConnIds : conns[d].state # "accepted"
                /\ stream = 0
                /\ sinkPc = "listening"]_vars

\* two clients have connected and sent; the Sink has read and logged the
\* first and is about to acknowledge it, the second is still queued
SequentialAcceptanceWitness ==
    \E c, d \in ConnIds :
        /\ conns[c].state = "accepted"
        /\ conns[c].readResult = "ok"
        /\ sinkPc = "writing"
        /\ conns[d].state = "queued"
        /\ conns[d].wrote

\* C3 (error propagation policy): no error of the Sink or the Collector other
\* than the Sink's bind failure stops a loop: a Sink that has stopped has
\* stopped on its one bind attempt, before the banner, and the Collector is
\* always inside its loop.
ErrorsAreLocal ==
    /\ sinkPc \in {"exited", "panicked"} => (bindAttempts = 1 /\ stdout = <<>> /\ stderr = <<>>)
    /\ colPc \in {"sample", "connect", "write", "sleep"}

\* C4 (P3, independent cycles): a step that logs a delivery failure leaves the
\* Collector at the sleep of the same cycle with its stream dropped; the sleep
\* can always end and leads to the next sample; the sample starts cycle N+1
\* with a payload formatted from the refreshed snapshot and goes on to
\* deliver; and nothing of cycle N's delivery is held while sleeping or
\* sampling.
IndependentCycles ==
    /\ [][/\ colErr' # colErr =>
               /\ colPc' = "sleep"
               /\ cycle' = cycle
               /\ colStream' = 0
               /\ Len(colErr') = Len(colErr) + 1
          /\ (colPc = "sleep" /\ colPc' # "sleep") =>
               /\ colPc' = "sample"
               /\ cycle' = cycle
          /\ (colPc = "sample" /\ colPc' # "sample") =>
               /\ colPc' = "connect"
               /\ cycle' = cycle + 1
               /\ system' \in HostSnapshots
               /\ metrics' = FormatMetrics(system')]_vars
    /\ [](colPc = "sleep" => ENABLED Sleep)
    /\ []((colPc = "sample" /\ cycle < MaxCycles) => ENABLED Sample)
    /\ [](colPc \in {"sleep", "sample"} => colStream = 0)
    /\ [](colPc \in {"sample", "connect", "write", "sleep"})

\* the delivery of cycle 1 failed and cycle 2 has sampled and is delivering
IndependentCyclesWitness ==
    /\ cycle = 2
    /\ colPc = "connect"
    /\ \E k \in 1..Len(colErr) : colErr[k].cycle = 1

\* C5 (P2, truncation): the step in which the Sink reads a connection on which
\* the client sent B with Len(B) > 1024 in one write returns 1024 and logs the
\* lossy decoding of the first 1024 bytes of B, with no error logged; B and
\* that line stay as they are; the handler goes on to the acknowledgment
\* write; and the rest of B stays queued, unread, with exactly one read made
\* on the connection.
Truncation ==
    /\ [][\A c \in ConnIds :
            (conns[c].readResult = "none" /\ conns'[c].readResult = "ok"
               /\ Len(conns[c].sent) > BufferCap) =>
                /\ stdout' = Append(stdout, <<"Received data: ",
                                              from_utf8_lossy(SubSeq(conns[c].sent, 1, BufferCap))>>)
                /\ conns'[c].logLine = Len(stdout')
                /\ stderr' = stderr
                /\ sinkPc' = "writing"]_vars
    /\ [][ReadIsFinal]_vars
    /\ [](\A c \in ConnIds :
            (conns[c].readResult = "ok" /\ Len(conns[c].sent) > BufferCap) =>
                /\ conns[c].size = BufferCap
                /\ conns[c].logLine > 0
                /\ Len(stdout[conns[c].logLine][2]) <= BufferCap
                /\ Len(conns[c].rx) = Len(conns[c].sent) - BufferCap
                /\ \A i \in 1..Len(conns[c].rx) : conns[c].rx[i] = conns[c].sent[BufferCap + i]
                /\ conns[c].reads = 1
                /\ conns[c].state = "accepted" => (sinkPc = "writing" /\ stream = c)
                /\ HandlerOver(c) => conns[c].acks = <<DataReceivedLn>>)

\* a client sent 1026 bytes; the Sink logged 1023 a's and U+FFFD for the cut
\* character, acknowledged, and two bytes are left unread
TruncationWitness ==
    \E c \in ConnIds :
        /\ conns[c].sent = Long
        /\ conns[c].readResult = "ok"
        /\ conns[c].state = "done"
        /\ LoggedText(c) = Rep(1023, 97) \o <<65533>>
        /\ conns[c].rx = <<169, 98>>
        /\ conns[c].reply = DataReceivedLn

\* C6 (read failure path): the step in which a read fails logs the failure,
\* drops the stream and takes the Sink back to listening; and on a connection
\* whose read failed no acknowledgment is ever written and no line is logged.
ReadFailurePath ==
    /\ [][\A c \in ConnIds :
            (conns[c].readResult # "err" /\ conns'[c].readResult = "err") =>
                /\ stderr' = Append(stderr, "Failed to read from connection")
                /\ stdout' = stdout
                /\ conns'[c].state = "done"
                /\ stream = c /\ stream' = 0
                /\ sinkPc' = "listening"]_vars
    /\ [](\A c \in ConnIds :
            conns[c].readResult = "err" =>
                /\ conns[c].acks = <<>>
                /\ conns[c].reply = <<>>
                /\ conns[c].ackResult = "none"
                /\ conns[c].logLine = 0
                /\ conns[c].state = "done")

\* the read of the first connection failed and the Sink has accepted the next
ReadFailurePathWitness ==
    /\ Len(accepted) >= 2
    /\ conns[accepted[1]].readResult = "err"
    /\ conns[accepted[2]].state = "accepted"

\* C7 (bind failure is fatal): bind is attempted at most once; a Sink whose
\* bind failed has terminated: none of its steps is enabled, and it has
\* printed nothing, accepted nothing, read nothing and written nothing.
BindFailureFatal ==
    /\ bindAttempts <= 1
    /\ sinkPc = "exited" =>
         /\ bindAttempts = 1
         /\ ~ENABLED SinkStep
         /\ stdout = <<>>
         /\ stderr = <<>>
         /\ acceptErrs = 0
         /\ accepted = <<>>
         /\ stream = 0
         /\ \A c \in ConnIds : conns[c].reads = 0 /\ conns[c].acks = <<>>

\* the bind failed
BindFailureFatalWitness ==
    /\ sinkPc = "exited"
    /\ bindAttempts = 1

\* C8 (accept failure is not fatal): the step in which an accept fails logs
\* the failure and leaves the Sink listening, with no read, no write and the
\* queue of connections untouched; and a listening Sink with a queued
\* connection can always accept it.
AcceptFailureNotFatal ==
    /\ [][acceptErrs' # acceptErrs =>
            /\ sinkPc = "listening" /\ sinkPc' = "listening"
            /\ stderr' = Append(stderr, "Failed to establish a connection")
            /\ UNCHANGED <<conns, incoming, accepted, stream, stdout>>]_vars
    /\ []((sinkPc = "listening" /\ incoming # <<>>) => ENABLED SinkAcceptOk)

\* an accept failed, and the one connection accepted since has been read and
\* logged (accepts fail only while listening, so the failure came first)
AcceptFailureNotFatalWitness ==
    /\ acceptErrs >= 1
    /\ Len(accepted) = 1
    /\ sinkPc = "writing"
    /\ conns[stream].readResult = "ok"

\* C9 (zero-length read): when the client has closed without sending and
\* nothing is queued, the read can return; whenever the Sink has read Ok on a
\* connection on which nothing was sent, the size is 0, the logged text is
\* empty, and the handler went on to the acknowledgment write.
ZeroLengthRead ==
    /\ (sinkPc = "reading" /\ ~conns[stream].clientOpen /\ conns[stream].rx = <<>>)
          => ENABLED SinkReadOk
    /\ \A c \in ConnIds :
          (conns[c].readResult = "ok" /\ conns[c].sent = <<>>) =>
              /\ conns[c].size = 0
              /\ conns[c].logLine > 0
              /\ stdout[conns[c].logLine] = <<"Received data: ", <<>>>>
              /\ conns[c].state = "accepted" => (sinkPc = "writing" /\ stream = c)
              /\ HandlerOver(c) => conns[c].acks = <<DataReceivedLn>>

\* a client closed without sending; the Sink read 0 bytes, logged the empty
\* text and wrote the acknowledgment
ZeroLengthReadWitness ==
    \E c \in ConnIds :
        /\ conns[c].sent = <<>>
        /\ ~conns[c].clientOpen
        /\ conns[c].readResult = "ok"
        /\ conns[c].size = 0
        /\ conns[c].acks = <<DataReceivedLn>>

\* ---- reading a payload back
\* p is the start of s
IsPrefix(p, s) == Len(p) <= Len(s) /\ SubSeq(s, 1, Len(p)) = p

\* p is the end of s
IsSuffix(p, s) == Len(p) <= Len(s) /\ SubSeq(s, Len(s) - Len(p) + 1, Len(s)) = p

\* s without the first a and the last b bytes
Inner(s, a, b) == SubSeq(s, a + 1, Len(s) - b)

IsDigits(s) == Len(s) >= 1 /\ \A i \in 1..Len(s) : s[i] >= 48 /\ s[i] <= 57

RECURSIVE ParseDec(_)
ParseDec(s) == IF s = <<>> THEN 0 ELSE 10 * ParseDec(SubSeq(s, 1, Len(s) - 1)) + (s[Len(s)] - 48)

\* a decimal with at most two fraction digits, in hundredths; -1 if it is none
ParseHundredths(s) ==
    LET dots == {i \in 1..Len(s) : s[i] = 46}
    IN  IF dots = {} THEN (IF IsDigits(s) THEN 100 * ParseDec(s) ELSE -1)
        ELSE LET d == CHOOSE i \in dots : TRUE
                 w == SubSeq(s, 1, d - 1)
                 f == SubSeq(s, d + 1, Len(s))
             IN  IF Cardinality(dots) = 1 /\ IsDigits(w) /\ IsDigits(f) /\ Len(f) <= 2
                 THEN 100 * ParseDec(w) + (IF Len(f) = 1 THEN 10 * ParseDec(f) ELSE ParseDec(f))
                 ELSE -1

\* the lines of bs, each without its newline; bs must end with a newline
Lines(bs) ==
    LET nl == {i \in 1..Len(bs) : bs[i] = 10}
        at(k) == CHOOSE i \in nl : Cardinality({j \in nl : j <= i}) = k
    IN  [k \in 1..Cardinality(nl) |-> SubSeq(bs, (IF k = 1 THEN 1 ELSE at(k - 1) + 1), at(k) - 1)]

\* bs is the three-line template of the payload; its fields read back as the
\* memory totals and the CPU usage given
IsPayloadOf(bs, total, avail, cpu) ==
    /\ bs # <<>> /\ bs[Len(bs)] = 10
    /\ Len(Lines(bs)) = 3
    /\ LET l1 == Lines(bs)[1]
           l2 == Lines(bs)[2]
           l3 == Lines(bs)[3]
       IN  /\ IsPrefix(TotalPrefix, l1) /\ IsSuffix(<<32, 75, 66>>, l1)
           /\ IsDigits(Inner(l1, Len(TotalPrefix), 3))
           /\ ParseDec(Inner(l1, Len(TotalPrefix), 3)) = total
           /\ IsPrefix(AvailPrefix, l2) /\ IsSuffix(<<32, 75, 66>>, l2)
           /\ IsDigits(Inner(l2, Len(AvailPrefix), 3))
           /\ ParseDec(Inner(l2, Len(AvailPrefix), 3)) = avail
           /\ IsPrefix(CpuPrefix, l3) /\ IsSuffix(<<37>>, l3)
           /\ ParseHundredths(Inner(l3, Len(CpuPrefix), 1)) = cpu

\* C10 (P5, format stability): from the first sample on, the payload of the
\* cycle is the three lines "Total memory: <n> KB", "Available memory: <n> KB",
\* "CPU load: <x>%" in that order, whose fields read back as the snapshot's
\* total memory, available memory and the usage of the first enumerated
\* processor; and every payload the Collector has written to a connection
\* is such a three-line block for some host snapshot.
FormatStability ==
    /\ cycle >= 1 =>
         IsPayloadOf(metrics, system.total_memory, system.available_memory, system.processors[1])
    /\ \A c \in ConnIds :
         (conns[c].owner = "collector" /\ conns[c].sent # <<>>) =>
             \E h \in HostSnapshots :
                 IsPayloadOf(conns[c].sent, h.total_memory, h.available_memory, h.processors[1])

\* the host has 1 KB of memory, none available, and two processors at 100%
\* and 3.05%; the Collector is about to write the payload
FormatStabilityWitness ==
    /\ colPc = "write"
    /\ system.processors = <<10000, 305>>
    /\ metrics = <<84, 111, 116, 97, 108, 32, 109, 101, 109, 111, 114, 121, 58, 32, 49, 32, 75, 66, 10, 65, 118, 97, 105, 108, 97, 98, 108, 101, 32, 109, 101, 109, 111, 114, 121, 58, 32, 48, 32, 75, 66, 10, 67, 80, 85, 32, 108, 111, 97, 100, 58, 32, 49, 48, 48, 37, 10>>

\* C11 (single read per connection): the Sink has attempted at most one read
\* on any connection, none on a connection still queued or about to be read;
\* once a connection has been read, whatever the read returned, it has been
\* read exactly once and no later read took anything from it: after Ok(size)
\* the bytes past size are still unread at the Sink's end, after Err all the
\* bytes the client sent are.
SingleRead ==
    \A c \in ConnIds :
        /\ conns[c].reads <= 1
        /\ conns[c].state = "queued" => conns[c].reads = 0
        /\ (sinkPc = "reading" /\ stream = c) => conns[c].reads = 0
        /\ conns[c].readResult = "none" => conns[c].reads = 0
        /\ conns[c].readResult = "ok" =>
              /\ conns[c].reads = 1
              /\ Len(conns[c].rx) = Len(conns[c].sent) - conns[c].size
        /\ conns[c].readResult = "err" =>
              /\ conns[c].reads = 1
              /\ Len(conns[c].rx) = Len(conns[c].sent)
        /\ HandlerOver(c) => stream # c

\* a peer sent 1026 bytes, the Sink read 1024 of them once and finished the
\* handler with 2 bytes still unread, and is serving the next connection
SingleReadWitness ==
    \E c \in ConnIds, d \in ConnIds :
        /\ c # d
        /\ conns[c].reads = 1
        /\ conns[c].size = BufferCap
        /\ Len(conns[c].rx) = 2
        /\ HandlerOver(c)
        /\ stream = d
        /\ sinkPc \in {"reading", "writing"}

\* the Sink's main goes from position a to position b in this step
SinkMoves(a, b) == sinkPc = a /\ sinkPc' = b

\* the handler positions a step of the loop may connect: Listening -> Reading
\* on an accepted connection, Reading -> Writing after Ok(size), Reading ->
\* Listening for a dropped connection (Err), Writing -> Listening
SinkHandlerEdge ==
    \/ /\ SinkMoves("listening", "reading")
       /\ stream = 0 /\ stream' \in ConnIds
       /\ conns[stream'].state = "queued" /\ conns'[stream'].state = "accepted"
    \/ /\ SinkMoves("reading", "writing")
       /\ stream' = stream
       /\ conns'[stream].readResult = "ok"
       /\ conns'[stream].logLine = Len(stdout')
       /\ conns'[stream].state = "accepted"
    \/ /\ SinkMoves("reading", "listening")
       /\ stream' = 0
       /\ conns'[stream].readResult = "err"
       /\ conns'[stream].acks = <<>>
       /\ conns'[stream].state = "done"
    \/ /\ SinkMoves("writing", "listening")
       /\ stream' = 0
       /\ conns'[stream].state = "done"

\* the Sink's process terminates in this step: in the loop only the panic of
\* the unwrap on a failed acknowledgment write does that (C3)
SinkTerminates ==
    /\ sinkPc' \in {"exited", "panicked"}
    /\ stream' = 0
    /\ \A c \in ConnIds : conns'[c].state # "accepted"

\* the acknowledgment is written on connection c in this step
AckWritten(c) == Len(conns'[c].acks) > Len(conns[c].acks)

\* C12 (Sink handler state machine): every step that moves the Sink out of
\* Listening, Reading or Writing follows Listening -> Reading -> (Writing |
\* Dropped) -> Listening on the connection being served, or terminates the
\* process, and a terminated Sink does nothing more; the acknowledgment
\* is written at most once per connection, in Writing, on the connection that
\* was just read successfully and whose data is already on stdout; and
\* the Sink is never stuck once a connection is queued or read: Listening
\* with a queued connection can accept it and Writing can finish the write.
SinkStateMachine ==
    /\ [][(sinkPc \in {"listening", "reading", "writing"} /\ sinkPc' # sinkPc)
             => (SinkHandlerEdge \/ SinkTerminates)]_vars
    /\ [][(sinkPc \in {"exited", "panicked"}) => (sinkVars' = sinkVars)]_vars
    /\ [][\A c \in ConnIds :
            AckWritten(c) =>
                /\ sinkPc = "writing" /\ stream = c
                /\ conns[c].acks = <<>>
                /\ Len(conns'[c].acks) = 1
                /\ conns[c].readResult = "ok"
                /\ conns[c].logLine \in 1..Len(stdout)
                /\ stdout[conns[c].logLine][1] = "Received data: "]_vars
    /\ [](\A c \in ConnIds : Len(conns[c].acks) <= 1)
    /\ []((sinkPc = "listening" /\ incoming # <<>>) => ENABLED SinkAcceptOk)
    /\ [](sinkPc = "writing" => ENABLED SinkWriteOk)

\* the Sink is back in Listening after one connection went through Writing
\* (read, logged, acknowledged once) and another was dropped on a read error
SinkStateMachineWitness ==
    /\ sinkPc = "listening"
    /\ \E c \in ConnIds, d \in ConnIds :
          /\ conns[c].state = "done" /\ conns[c].readResult = "ok"
          /\ Len(conns[c].acks) = 1 /\ conns[c].ackResult = "ok"
          /\ conns[d].state = "done" /\ conns[d].readResult = "err"
          /\ conns[d].acks = <<>>

\* the connections the Collector opened in cycle k
CollectorConns(k) ==
    {c \in ConnIds : conns[c].owner = "collector" /\ conns[c].cycle = k}

\* the connect failures the Collector logged in cycle k
ConnectFailures(k) ==
    {i \in 1..Len(colErr) : colErr[i].cycle = k /\ colErr[i].msg = "Could not connect to server"}

\* the connect attempts send_data has made in cycle k
ConnectAttempts(k) == Cardinality(CollectorConns(k)) + Cardinality(ConnectFailures(k))

\* the connections whose Collector end is open
OpenCollectorConns ==
    {c \in ConnIds : conns[c].owner = "collector" /\ conns[c].clientOpen}

\* C13 (one fresh connection per cycle, no retry): in every cycle send_data
\* makes one connect attempt, none before it is called and exactly one once
\* it has connected or failed; on a connection it makes at most one write,
\* on a failed connect none; what the Sink wrote back is never taken from
\* the connection; the only connection the Collector holds open is the one
\* of the current cycle between its connect and its write, so it holds at
\* most one and none while it sleeps or samples.
OneConnectionPerCycle ==
    /\ \A k \in 1..cycle :
          /\ ConnectAttempts(k) <= 1
          /\ ConnectAttempts(k) = 0 <=> (k = cycle /\ colPc = "connect")
          /\ ConnectFailures(k) # {} => CollectorConns(k) = {}
    /\ \A c \in ConnIds :
          conns[c].owner = "collector" =>
              /\ conns[c].cycle \in 1..cycle
              /\ conns[c].writes <= 1
              /\ conns[c].reply = IF conns[c].ackResult = "ok" THEN response ELSE <<>>
              /\ (c # colStream) => (~conns[c].clientOpen /\ conns[c].writes = 1)
    /\ Cardinality(OpenCollectorConns) <= 1
    /\ colPc = "write" =>
          /\ OpenCollectorConns = {colStream}
          /\ conns[colStream].cycle = cycle
          /\ conns[colStream].writes = 0
    /\ colPc # "write" => (colStream = 0 /\ OpenCollectorConns = {})

\* the Collector sleeps in its second cycle: in the first it connected, wrote
\* once and closed; in the second the connect failed and nothing was written
OneConnectionPerCycleWitness ==
    /\ colPc = "sleep"
    /\ cycle = 2
    /\ \E c \in CollectorConns(1) : conns[c].writes = 1 /\ ~conns[c].clientOpen
    /\ ConnectFailures(2) # {}
    /\ CollectorConns(2) = {}

\* the Collector goes from position a to position b in this step
CollectorMoves(a, b) == colPc = a /\ colPc' = b

\* the steps of one pass of the loop: sample (the snapshot is refreshed and
\* the payload is formatted from the refreshed snapshot), deliver (connect,
\* then write unless the connect failed), sleep, and back to sample
CollectorLoopEdge ==
    \/ /\ CollectorMoves("sample", "connect")
       /\ cycle' = cycle + 1
       /\ system' \in HostSnapshots
       /\ metrics' = FormatMetrics(system')
    \/ /\ CollectorMoves("connect", "write")
       /\ colStream' \in CollectorConns(cycle)'
       /\ UNCHANGED <<cycle, system, metrics>>
    \/ /\ CollectorMoves("connect", "sleep")
       /\ Len(colErr') = Len(colErr) + 1
       /\ UNCHANGED <<cycle, system, metrics>>
    \/ /\ CollectorMoves("write", "sleep")
       /\ conns'[colStream].writes = 1
       /\ UNCHANGED <<cycle, system, metrics>>
    \/ /\ CollectorMoves("sleep", "sample")
       /\ UNCHANGED <<cycle, system, metrics, colStream, colErr, conns>>

\* C14 (Collector loop order and non-termination): every step of the
\* Collector is the next step of sample -> deliver -> sleep -> sample: a
\* sample refreshes the snapshot and formats the refreshed values, a deliver
\* (connect, then write unless the connect failed) follows it, a sleep
\* follows the deliver, and the next sample follows the sleep; the Collector
\* is never at a position outside the loop, and at every position of the
\* loop its next step can be taken (the sample up to the bound on cycles);
\* and a Collector that keeps running completes every pass: from the start
\* of pass k it reaches the sleep of pass k, and from there the next sample.
CollectorLoop ==
    /\ [][(colVars' # colVars) => CollectorLoopEdge]_vars
    /\ [](colPc \in {"sample", "connect", "write", "sleep"})
    /\ []((colPc = "sample" /\ cycle < MaxCycles) => ENABLED Sample)
    /\ [](colPc = "connect" => (ENABLED ConnectOk \/ ENABLED ConnectErr))
    /\ [](colPc = "write" => ENABLED WriteOk)
    /\ [](colPc = "sleep" => ENABLED Sleep)
    /\ \A k \in 1..MaxCycles :
          (cycle = k - 1 /\ colPc = "sample") ~> (cycle = k /\ colPc = "sleep")
    /\ \A k \in 1..MaxCycles :
          (cycle = k /\ colPc = "sleep") ~> (cycle = k /\ colPc = "sample")

\* the Collector is back at sample after two full passes, each of which
\* sampled, delivered on a connection of its own and slept
CollectorLoopWitness ==
    /\ colPc = "sample"
    /\ cycle = 2
    /\ \E c \in CollectorConns(1), d \in CollectorConns(2) :
          conns[c].writes = 1 /\ conns[d].writes = 1

\* the Sink is blocked in the read of connection c, whose client has sent
\* nothing and holds its end open
Stalled(c) ==
    /\ sinkPc = "reading"
    /\ stream = c
    /\ conns[c].clientOpen
    /\ conns[c].rx = <<>>

\* C15 (head-of-line stall): while the Sink is in the read of a connection
\* whose client has neither sent nor closed, no call of the Sink can return
\* without an error, so a Sink that keeps running may stay there forever;
\* and every step in which that client still neither sends nor closes and
\* the read does not fail leaves the Sink in that read and leaves every
\* queued connection queued.
HeadOfLineStall ==
    /\ [](\A c \in ConnIds : Stalled(c) => ~ENABLED SinkProgress)
    /\ [][\A c \in ConnIds, d \in ConnIds :
            ( /\ Stalled(c)
              /\ conns[d].state = "queued"
              /\ conns'[c].sent = conns[c].sent
              /\ conns'[c].clientOpen
              /\ conns'[c].readResult = "none" )
            => ( /\ sinkPc' = "reading" /\ stream' = c
                 /\ conns'[c].rx = <<>>
                 /\ conns'[d].state = "queued"
                 /\ accepted' = accepted )]_vars

\* the Sink reads a silent client's connection while a second client, which
\* has already sent its data and closed, is queued behind it
HeadOfLineStallWitness ==
    \E c \in ConnIds, d \in ConnIds :
        /\ Stalled(c)
        /\ ~conns[c].wrote
        /\ conns[d].state = "queued"
        /\ conns[d].wrote
        /\ ~conns[d].clientOpen

\* where connection c is, "none" while no client has opened it
StateOf(c) == IF c \in ConnIds THEN conns[c].state ELSE "none"

\* C16 (Sink progress under fairness): when the Sink keeps running and the
\* client being served always ends up sending or closing, then, unless an
\* acknowledgment write fails, every connection queued at the listener is
\* eventually accepted and every accepted connection's handler eventually
\* returns to Listening; connections are accepted in the order in which
\* they were queued and handled in the order in which they were accepted:
\* all but the last accepted one are over, and the queue holds the
\* connections that came after them, in order.
SinkProgressUnderFairness ==
    /\ \A c \in 1..MaxConns :
          [](sinkPc # "panicked") =>
              /\ (StateOf(c) = "queued") ~> (StateOf(c) \in {"accepted", "done"})
              /\ (StateOf(c) = "accepted") ~> (StateOf(c) = "done" /\ stream # c)
    /\ [](\A i \in 1..Len(accepted) :
            /\ accepted[i] = i
            /\ i < Len(accepted) => HandlerOver(i))
    /\ [](\A i \in 1..Len(incoming) : incoming[i] = Len(accepted) + i)
    /\ [](Len(accepted) + Len(incoming) = Len(conns))

\* two connections were queued together; both have been accepted, in order,
\* and handled, and the Sink is back in Listening with an empty queue
SinkProgressUnderFairnessWitness ==
    /\ sinkPc = "listening"
    /\ accepted = <<1, 2>>
    /\ incoming = <<>>
    /\ conns[1].state = "done" /\ conns[2].state = "done"
    /\ conns[1].readResult = "ok" /\ conns[1].ackResult = "ok"
    /\ conns[2].logLine > conns[1].logLine

\* what the Sink has done on connection c: its read, its log line, its
\* acknowledgment and what of it reached the client's end
SinkSide(c) ==
    <<conns[c].state, conns[c].reads, conns[c].readResult, conns[c].size,
      conns[c].logLine, conns[c].acks, conns[c].ackResult, conns[c].reply>>

\* what the Sink's main holds and has printed (the listener's queue, which
\* a connect extends, is not part of it)
SinkOwn == <<sinkPc, bindAttempts, accepted, stream, stdout, stderr, acceptErrs>>

\* C17 (the Collector does not depend on the Sink's reply): a step of the
\* Sink, the acknowledgment write included, changes nothing of the
\* Collector's state, and a step of the Collector changes nothing of what
\* the Sink did on any connection and takes nothing from the reply; which
\* step the Collector can take depends on its own position alone (and, for
\* the connect, on the Sink listening), not on whether the Sink has read,
\* acknowledged or failed: at write the write can be made, at sleep the
\* sleep ends; and the step after the write is the sleep.
ReplyIndependence ==
    /\ [][(SinkOwn' # SinkOwn) => (colVars' = colVars)]_vars
    /\ [][(colVars' # colVars) =>
            /\ SinkOwn' = SinkOwn
            /\ \A c \in ConnIds : SinkSide(c)' = SinkSide(c)]_vars
    /\ [][\A c \in ConnIds :
            (SinkSide(c)' # SinkSide(c)) => (colVars' = colVars)]_vars
    /\ [][(colPc = "write" /\ colVars' # colVars) =>
            (colPc' = "sleep" /\ colStream' = 0 /\ ~conns'[colStream].clientOpen)]_vars
    /\ []((ENABLED ConnectOk) <=> (colPc = "connect" /\ SinkUp))
    /\ []((ENABLED ConnectErr) <=> (colPc = "connect" /\ ~SinkUp))
    /\ []((ENABLED WriteOk) <=> (colPc = "write"))
    /\ []((ENABLED WriteErr) <=> (colPc = "write"))
    /\ []((ENABLED Sleep) <=> (colPc = "sleep"))
    /\ []((ENABLED Sample) <=> (colPc = "sample" /\ cycle < MaxCycles))

\* the Collector sleeps in its second cycle: the Sink acknowledged the first
\* cycle's connection and the acknowledgment lies unread at the Collector's
\* closed end, and the second cycle's payload has not been read by the Sink
ReplyIndependenceWitness ==
    /\ colPc = "sleep"
    /\ cycle = 2
    /\ \E c \in CollectorConns(1), d \in CollectorConns(2) :
          /\ conns[c].ackResult = "ok" /\ conns[c].reply = response
          /\ ~conns[c].clientOpen
          /\ conns[d].writes = 1 /\ conns[d].readResult = "none"

====
